---- MODULE Spec2Model ----
(***************************************************************************)
(* RewardFlow distribution algorithm: the three functions of formulas.js   *)
(* (calculateWeightage, calculateDistribution, getDistributionStats) and   *)
(* the interactive demo that drives them (demo.js: config, holders, menu). *)
(*                                                                         *)
(* Numbers.  A JavaScript Number is modelled as an extended fixed-point    *)
(* value: a record [k, v] with k = "fin" and v an integer count of the     *)
(* quantity's unit, or k one of "nan", "pinf", "ninf" (NaN, +Infinity,     *)
(* -Infinity).  Units: token balances and hours are whole numbers; weights *)
(* are counted in 1/WScale; the treasury in 1/TreasuryScale SOL; the fee   *)
(* reserve in 1/FeeScale; amounts in 1/(TreasuryScale*FeeScale) SOL.  A    *)
(* share is kept as the exact quotient [k, n, d] of two weights.  The      *)
(* rounding of binary floating point is not modelled.                      *)
(***************************************************************************)
EXTENDS Integers, Sequences, FiniteSets, TLC

(***************************************************************************)
(* Units of the fixed-point quantities.                                    *)
(***************************************************************************)
WScale == 1000
TreasuryScale == 50000
FeeScale == 20
AmountScale == TreasuryScale * FeeScale

(***************************************************************************)
(* Extended numbers: IEEE-754 special values next to the finite ones.      *)
(***************************************************************************)
Fin(x) == [k |-> "fin", v |-> x]
NaN == [k |-> "nan", v |-> 0]
PInf == [k |-> "pinf", v |-> 0]
NInf == [k |-> "ninf", v |-> 0]

IsFin(a) == a.k = "fin"

Sgn(x) == IF x > 0 THEN 1 ELSE IF x < 0 THEN -1 ELSE 0

Abs(x) == IF x < 0 THEN -x ELSE x

\* sign of an extended number that is not NaN
XSgn(a) == IF a.k = "pinf" THEN 1 ELSE IF a.k = "ninf" THEN -1 ELSE Sgn(a.v)

InfOf(s) == IF s > 0 THEN PInf ELSE IF s < 0 THEN NInf ELSE NaN

\* a + b
XAdd(a, b) ==
  IF a.k = "nan" \/ b.k = "nan" THEN NaN
  ELSE IF IsFin(a) /\ IsFin(b) THEN Fin(a.v + b.v)
  ELSE IF IsFin(a) THEN b
  ELSE IF IsFin(b) THEN a
  ELSE IF a.k = b.k THEN a ELSE NaN

\* a * b / scale : the product of two fixed-point numbers of unit 1/scale
\* (truncated towards zero)
XMul(a, b, scale) ==
  IF a.k = "nan" \/ b.k = "nan" THEN NaN
  ELSE IF IsFin(a) /\ IsFin(b)
       THEN Fin(Sgn(a.v) * Sgn(b.v) * ((Abs(a.v) * Abs(b.v)) \div scale))
  ELSE InfOf(XSgn(a) * XSgn(b))

\* a < b, a >= b as JavaScript compares: false whenever an operand is NaN
XLt(a, b) ==
  /\ a.k # "nan" /\ b.k # "nan"
  /\ \/ IsFin(a) /\ IsFin(b) /\ a.v < b.v
     \/ a.k = "ninf" /\ b.k # "ninf"
     \/ b.k = "pinf" /\ a.k # "pinf"

XGe(a, b) ==
  /\ a.k # "nan" /\ b.k # "nan"
  /\ ~XLt(a, b)

(***************************************************************************)
(* Math.log2, Math.log10, Math.exp in fixed point.                         *)
(***************************************************************************)
RECURSIVE Pow2(_)
Pow2(e) == IF e = 0 THEN 1 ELSE 2 * Pow2(e - 1)

\* the largest e with 2^e <= n, for n >= 1
RECURSIVE ILog2(_)
ILog2(n) == IF n < 2 THEN 0 ELSE 1 + ILog2(n \div 2)

\* fractional bits of log2 of the mantissa m in [1024, 2048), by squaring
RECURSIVE Log2Frac(_, _, _)
Log2Frac(m, i, acc) ==
  IF i > 10 THEN acc
  ELSE LET sq == (m * m) \div 1024
       IN IF sq >= 2048 THEN Log2Frac(sq \div 2, i + 1, acc + Pow2(10 - i))
                        ELSE Log2Frac(sq, i + 1, acc)

\* WScale * log2(n) for a whole number n >= 1
Log2Int(n) ==
  LET e == ILog2(n)
      m == IF e >= 10 THEN n \div Pow2(e - 10) ELSE n * Pow2(10 - e)
  IN e * WScale + (Log2Frac(m, 1, 0) * WScale) \div 1024

\* Math.log2(num / den) for whole num and den > 0, in 1/WScale
Log2Ratio(num, den) ==
  IF num < 0 THEN NaN
  ELSE IF num = 0 THEN NInf
  ELSE Fin(Log2Int(num) - Log2Int(den))

\* Math.log10(tokens / minBalance) in 1/WScale; log10 x = log2 x * 0.30103
Log10Ratio(tokens, minBalance) ==
  IF minBalance = 0
  THEN (IF tokens > 0 THEN PInf ELSE NaN)
  ELSE IF tokens = 0 THEN NInf
  ELSE IF Sgn(tokens) # Sgn(minBalance) THEN NaN
  ELSE LET l2 == Log2Int(Abs(tokens)) - Log2Int(Abs(minBalance))
       IN Fin(Sgn(l2) * ((Abs(l2) * 30103) \div 100000))

\* Taylor series of exp(num/den) in millionths, term by term
RECURSIVE ExpSeries(_, _, _, _, _)
ExpSeries(num, den, k, term, acc) ==
  IF term = 0 \/ k > 40 THEN acc
  ELSE LET next == Sgn(term) * Sgn(num) * ((Abs(term) * Abs(num)) \div (den * k))
       IN ExpSeries(num, den, k + 1, next, acc + next)

\* Math.exp(num / den) for whole num and den > 0, in 1/WScale
ExpRatio(num, den) ==
  Fin(ExpSeries(num, den, 1, 1000000, 1000000) \div (1000000 \div WScale))

(***************************************************************************)
(* formulas.js: calculateWeightage                                         *)
(***************************************************************************)
\* the result returned for a holder below the minimum balance (and by the
\* catch block)
ZeroWeightage ==
  [ balanceWeight |-> Fin(0), earlyBonus |-> Fin(0), tenureBonus |-> Fin(0),
    timeWeight |-> Fin(0), totalWeight |-> Fin(0), hoursSinceLaunch |-> 0,
    hoursHeld |-> 0, qualified |-> FALSE ]

\* mutant: the threshold test written with <=, so that a balance equal to
\* the minimum is disqualified
BelowMinimum_Strict(tokens, minBalance) == tokens <= minBalance

\* if (tokens < minBalance)
BelowMinimum(tokens, minBalance) == tokens < minBalance

calculateWeightage(tokens, hoursAfterLaunch, hoursSinceLaunch, minBalance) ==
  IF BelowMinimum(tokens, minBalance) THEN ZeroWeightage
  ELSE
    LET hoursHeld == hoursSinceLaunch - hoursAfterLaunch
        \* daysSinceLaunch = hoursAfterLaunch / 24, daysHeld = hoursHeld / 24
        tokenBalanceWeight == XAdd(Fin(WScale), Log10Ratio(tokens, minBalance))
        \* exp(-daysSinceLaunch / 2) = exp(-hoursAfterLaunch / 48)
        earlyBonus ==
          XAdd(Fin(WScale), XMul(Fin(2 * WScale), ExpRatio(-hoursAfterLaunch, 48), WScale))
        \* log2(daysHeld + 1) = log2((hoursHeld + 24) / 24)
        tenureBonus ==
          XAdd(Fin(WScale), XMul(Fin((6 * WScale) \div 10), Log2Ratio(hoursHeld + 24, 24), WScale))
        timeWeight == XMul(earlyBonus, tenureBonus, WScale)
        totalWeight == XMul(tokenBalanceWeight, timeWeight, WScale)
    IN [ balanceWeight |-> tokenBalanceWeight, earlyBonus |-> earlyBonus,
         tenureBonus |-> tenureBonus, timeWeight |-> timeWeight,
         totalWeight |-> totalWeight, hoursSinceLaunch |-> hoursAfterLaunch,
         hoursHeld |-> hoursHeld, qualified |-> TRUE ]

(***************************************************************************)
(* Quotients: a / b kept exact as [k, n, d] (n / d with d > 0 when finite) *)
(***************************************************************************)
Quot(kind, num, den) == [k |-> kind, n |-> num, d |-> den]

\* a / b for extended numbers a, b of the same unit
XDiv(a, b) ==
  IF a.k = "nan" \/ b.k = "nan" THEN Quot("nan", 0, 1)
  ELSE IF IsFin(a) /\ IsFin(b)
       THEN IF b.v = 0
            THEN Quot(InfOf(Sgn(a.v)).k, 0, 1)
            ELSE IF b.v < 0 THEN Quot("fin", -a.v, -b.v) ELSE Quot("fin", a.v, b.v)
  ELSE IF IsFin(a) THEN Quot("fin", 0, 1)
  ELSE IF IsFin(b) THEN Quot(InfOf(XSgn(a) * (IF b.v < 0 THEN -1 ELSE 1)).k, 0, 1)
  ELSE Quot("nan", 0, 1)

\* floor(|a * n / d|) with the sign of a * n, without forming a * n
MulDiv(a, n, d) ==
  Sgn(a) * Sgn(n) * ((Abs(a) \div d) * Abs(n) + ((Abs(a) % d) * Abs(n)) \div d)

\* x * q for a whole number x of some unit and a quotient q: in x's unit
QMulInt(x, q) ==
  IF q.k = "nan" THEN NaN
  ELSE IF q.k = "fin" THEN Fin(MulDiv(x, q.n, q.d))
  ELSE InfOf(Sgn(x) * (IF q.k = "pinf" THEN 1 ELSE -1))

\* q * c for a whole number c
QScale(q, c) == IF q.k = "fin" THEN Quot("fin", q.n * c, q.d) ELSE q

(***************************************************************************)
(* Array helpers: map / filter / reduce over sequences                     *)
(***************************************************************************)
RECURSIVE SumWeight(_)
SumWeight(hs) ==
  IF hs = <<>> THEN Fin(0)
  ELSE XAdd(SumWeight(SubSeq(hs, 1, Len(hs) - 1)), hs[Len(hs)].weightage.totalWeight)

RECURSIVE SumAmount(_)
SumAmount(ds) ==
  IF ds = <<>> THEN Fin(0)
  ELSE XAdd(SumAmount(SubSeq(ds, 1, Len(ds) - 1)), ds[Len(ds)].amount)

RECURSIVE SumTokens(_)
SumTokens(hs) ==
  IF hs = <<>> THEN 0
  ELSE SumTokens(SubSeq(hs, 1, Len(hs) - 1)) + hs[Len(hs)].tokens

(***************************************************************************)
(* formulas.js: calculateDistribution                                      *)
(***************************************************************************)
\* 0.000001 SOL in the unit of amounts
DustThreshold == AmountScale \div 1000000

\* { ...holder, weightage: calculateWeightage(...) }
WithWeightage(holder) ==
  [ address |-> holder.address, tokens |-> holder.tokens,
    hoursAfterLaunch |-> holder.hoursAfterLaunch, hoursHeld |-> holder.hoursHeld,
    minBalance |-> holder.minBalance, maxBalance |-> holder.maxBalance,
    hoursSinceLaunch |-> holder.hoursSinceLaunch,
    weightage |-> calculateWeightage(holder.tokens, holder.hoursAfterLaunch,
                                     holder.hoursSinceLaunch, holder.minBalance) ]

\* mutant: the maximum-balance test left out of the filter
IsValidHolder_NoMax(holder) == holder.weightage.qualified

\* mutant: the two tests joined by || instead of &&
IsValidHolder_Or(holder) ==
  holder.weightage.qualified \/ holder.tokens <= holder.maxBalance

\* the filter of validHolders: qualified and not above the maximum balance
IsValidHolder(holder) ==
  holder.weightage.qualified /\ holder.tokens <= holder.maxBalance

ValidHolders(holders) ==
  SelectSeq([i \in 1..Len(holders) |-> WithWeightage(holders[i])], IsValidHolder)

\* mutant: the fee is computed but not subtracted
AvailableForDistribution_NoFee(totalTreasury, feeReserve) ==
  totalTreasury * FeeScale

\* totalTreasury - totalTreasury * feeReserve, in the unit of amounts
AvailableForDistribution(totalTreasury, feeReserve) ==
  LET feeAmount == totalTreasury * feeReserve
  IN totalTreasury * FeeScale - feeAmount

\* one entry of distributionResults
DistributionResult(holder, totalWeightage, availableForDistribution) ==
  LET share == XDiv(holder.weightage.totalWeight, totalWeightage)
      amount == QMulInt(availableForDistribution, share)
  IN [ address |-> holder.address, tokens |-> holder.tokens,
       weightage |-> holder.weightage, share |-> share, amount |-> amount,
       sharePercentage |-> QScale(share, 100) ]

\* the filter of filteredResults: result.amount >= 0.000001
NotDust(result) == XGe(result.amount, Fin(DustThreshold))

\* mutant: the results are collected back to front
FilterDust_Reversed(distributionResults) ==
  LET kept == SelectSeq(distributionResults, NotDust)
  IN [j \in 1..Len(kept) |-> kept[Len(kept) + 1 - j]]

\* distributionResults.filter(result => result.amount >= 0.000001)
FilterDust(distributionResults) == SelectSeq(distributionResults, NotDust)

calculateDistribution(holders, totalTreasury, feeReserve) ==
  LET validHolders == ValidHolders(holders)
  IN IF Len(validHolders) = 0 THEN <<>>
     ELSE
       LET totalWeightage == SumWeight(validHolders)
           availableForDistribution == AvailableForDistribution(totalTreasury, feeReserve)
           distributionResults ==
             [i \in 1..Len(validHolders) |->
                DistributionResult(validHolders[i], totalWeightage, availableForDistribution)]
       IN FilterDust(distributionResults)

(***************************************************************************)
(* formulas.js: getDistributionStats                                       *)
(***************************************************************************)
\* what indexing an empty array yields
Undefined == [k |-> "undefined"]

\* a - b
XSub(a, b) ==
  XAdd(a, IF b.k = "pinf" THEN NInf ELSE IF b.k = "ninf" THEN PInf
          ELSE IF b.k = "nan" THEN NaN ELSE Fin(-b.v))

\* the comparators of the two sorts: b - a, a NaN result counting as 0
ByWeightDesc(a, b) ==
  LET c == XSub(b.weightage.totalWeight, a.weightage.totalWeight)
  IN IF c.k = "nan" THEN 0 ELSE XSgn(c)

ByAmountDesc(a, b) ==
  LET c == XSub(b.amount, a.amount)
  IN IF c.k = "nan" THEN 0 ELSE XSgn(c)

\* the comparator of the sort named by key
Compare(key, a, b) ==
  IF key = "weight" THEN ByWeightDesc(a, b) ELSE ByAmountDesc(a, b)

\* mutant: an unstable sort, x going in front of the elements it ties with
RECURSIVE InsertSorted_Unstable(_, _, _)
InsertSorted_Unstable(sorted, x, key) ==
  IF sorted = <<>> THEN <<x>>
  ELSE LET last == sorted[Len(sorted)]
       IN IF Compare(key, last, x) >= 0
          THEN Append(InsertSorted_Unstable(SubSeq(sorted, 1, Len(sorted) - 1), x, key), last)
          ELSE Append(sorted, x)

\* Array.prototype.sort is stable: x goes behind every element that does not
\* compare greater than it
RECURSIVE InsertSorted(_, _, _)
InsertSorted(sorted, x, key) ==
  IF sorted = <<>> THEN <<x>>
  ELSE LET last == sorted[Len(sorted)]
       IN IF Compare(key, last, x) > 0
          THEN Append(InsertSorted(SubSeq(sorted, 1, Len(sorted) - 1), x, key), last)
          ELSE Append(sorted, x)

\* [...distribution].sort(comparator): a sorted copy
RECURSIVE SortBy(_, _)
SortBy(ds, key) ==
  IF ds = <<>> THEN <<>>
  ELSE InsertSorted(SortBy(SubSeq(ds, 1, Len(ds) - 1), key), ds[Len(ds)], key)

\* the caller's array after the call: both sorts work on a spread copy,
\* [...distribution], and nothing else writes to the argument
ArgumentAfterStats(distribution) == distribution

\* mutant: the statistics use the eligibility test of calculateDistribution
MeetsMinBalance_AndMax(h) == h.tokens >= h.minBalance /\ h.tokens <= h.maxBalance

\* h => h.tokens >= h.minBalance
MeetsMinBalance(h) == h.tokens >= h.minBalance

getDistributionStats(holders, distribution) ==
  LET validHolders == SelectSeq(holders, MeetsMinBalance)
      totalTokens == SumTokens(validHolders)
      totalWeightage == SumWeight(distribution)
      totalDistributed == SumAmount(distribution)
      averageWeight == XDiv(totalWeightage, Fin(Len(distribution)))
      averageReward == XDiv(totalDistributed, Fin(Len(distribution)))
      sortedByWeight == SortBy(distribution, "weight")
      sortedByReward == SortBy(distribution, "amount")
      first(s) == IF s = <<>> THEN Undefined ELSE s[1]
      last(s) == IF s = <<>> THEN Undefined ELSE s[Len(s)]
  IN [ totalHolders |-> Len(holders),
       validHolders |-> Len(validHolders),
       totalTokens |-> totalTokens,
       totalWeightage |-> totalWeightage,
       totalDistributed |-> totalDistributed,
       averageWeight |-> averageWeight,
       averageReward |-> averageReward,
       topWeight |-> first(sortedByWeight),
       topReward |-> first(sortedByReward),
       bottomWeight |-> last(sortedByWeight),
       bottomReward |-> last(sortedByReward) ]

(***************************************************************************)
(* State.  config and holders are the demo's globals; display is what the  *)
(* last menu operation computed and printed; pc is the position of main's  *)
(* loop; call is the last direct call of a function of formulas.js.        *)
(***************************************************************************)
VARIABLES config, holders, display, pc, call

vars == <<config, holders, display, pc, call>>

\* demo.js: let config = { ... }
DefaultMinBalance == 20000
DefaultMaxBalance == 100000000
DefaultTreasury == 10 * TreasuryScale
DefaultFeeReserve == FeeScale \div 20
DefaultHoursSinceLaunch == 48

DefaultConfig ==
  [ minBalance |-> DefaultMinBalance, maxBalance |-> DefaultMaxBalance,
    treasuryBalance |-> DefaultTreasury, feeReserve |-> DefaultFeeReserve,
    hoursSinceLaunch |-> DefaultHoursSinceLaunch ]

NoCall == [fn |-> "none"]
NoDisplay == [op |-> "none"]

\* a holder object as addHolder builds it
Holder(address, tokens, hoursAfterLaunch, minBalance, maxBalance, hoursSinceLaunch) ==
  [ address |-> address, tokens |-> tokens, hoursAfterLaunch |-> hoursAfterLaunch,
    hoursHeld |-> hoursSinceLaunch - hoursAfterLaunch,
    minBalance |-> minBalance, maxBalance |-> maxBalance,
    hoursSinceLaunch |-> hoursSinceLaunch ]

(***************************************************************************)
(* FormulaSpec: the functions of formulas.js called directly.  Init draws  *)
(* the holder array; the actions apply the three functions to it.  None of *)
(* the three has a throw statement, and calculateWeightage catches what    *)
(* its body could throw, so every call ends with outcome "returned".       *)
(***************************************************************************)
MaxHolders == 2

AddressPool == <<"w1", "w2", "w3", "w4", "w5">>

\* token balances below, at and above the default minimum, and above the maximum
TokenVals == {19999, 20000, 200000, 100000001}

\* hours after launch of the first purchase; 70 lies after hoursSinceLaunch = 48
HoursAfterVals == {0, 24, 70}

\* holders of a run with the default thresholds
StandardHolders ==
  { [tokens |-> t, hoursAfterLaunch |-> h, hoursSinceLaunch |-> DefaultHoursSinceLaunch,
     minBalance |-> DefaultMinBalance, maxBalance |-> DefaultMaxBalance] :
    t \in TokenVals, h \in HoursAfterVals }

\* holders carrying other thresholds: a smaller valid pair, minBalance = 0,
\* maxBalance < minBalance, and purchases one and two days after "now"
OddHolders ==
  { [tokens |-> 100, hoursAfterLaunch |-> 0, hoursSinceLaunch |-> 48,
     minBalance |-> 1, maxBalance |-> 20000],
    [tokens |-> 5, hoursAfterLaunch |-> 0, hoursSinceLaunch |-> 48,
     minBalance |-> 0, maxBalance |-> 20000],
    [tokens |-> 20000, hoursAfterLaunch |-> 0, hoursSinceLaunch |-> 48,
     minBalance |-> 20000, maxBalance |-> 10000],
    [tokens |-> 20000, hoursAfterLaunch |-> 72, hoursSinceLaunch |-> 48,
     minBalance |-> 20000, maxBalance |-> 100000000],
    [tokens |-> 20000, hoursAfterLaunch |-> 96, hoursSinceLaunch |-> 48,
     minBalance |-> 20000, maxBalance |-> 100000000] }

HolderVals == StandardHolders \cup OddHolders

\* treasury: negative, nothing, 0.00002 SOL, 10 SOL
TreasuryVals == {-1, 0, 1, DefaultTreasury}

\* fee reserve: negative, 0, 5 %, 95 %, 100 %, 150 %
FeeVals == {-1, 0, DefaultFeeReserve, FeeScale - 1, FeeScale, FeeScale + 10}

HolderArrays ==
  UNION { { [i \in 1..n |->
              Holder(AddressPool[i], ps[i].tokens, ps[i].hoursAfterLaunch,
                     ps[i].minBalance, ps[i].maxBalance, ps[i].hoursSinceLaunch)] :
            ps \in [1..n -> HolderVals] } : n \in 0..MaxHolders }

FormulaInit ==
  /\ config = DefaultConfig
  /\ holders \in HolderArrays
  /\ display = NoDisplay
  /\ pc = "menu"
  /\ call = NoCall

\* calculateWeightage(h.tokens, h.hoursAfterLaunch, h.hoursSinceLaunch, h.minBalance)
CallWeightage ==
  \E i \in 1..Len(holders) :
    LET h == holders[i]
    IN /\ call = NoCall
       /\ call' = [ fn |-> "calculateWeightage", outcome |-> "returned",
                    tokens |-> h.tokens, hoursAfterLaunch |-> h.hoursAfterLaunch,
                    hoursSinceLaunch |-> h.hoursSinceLaunch, minBalance |-> h.minBalance,
                    ret |-> calculateWeightage(h.tokens, h.hoursAfterLaunch,
                                               h.hoursSinceLaunch, h.minBalance) ]
       /\ UNCHANGED <<config, holders, display, pc>>

\* calculateDistribution(holders, totalTreasury, feeReserve)
CallDistribution ==
  \E totalTreasury \in TreasuryVals, feeReserve \in FeeVals :
    /\ call = NoCall
    /\ call' = [ fn |-> "calculateDistribution", outcome |-> "returned",
                 holders |-> holders,
                 totalTreasury |-> totalTreasury, feeReserve |-> feeReserve,
                 ret |-> calculateDistribution(holders, totalTreasury, feeReserve) ]
    /\ UNCHANGED <<config, holders, display, pc>>

\* getDistributionStats(holders, distribution) on the distribution just computed
CallStats ==
  /\ call.fn = "calculateDistribution"
  /\ call' = [ fn |-> "getDistributionStats", outcome |-> "returned",
               holders |-> holders,
               distribution |-> call.ret,
               totalTreasury |-> call.totalTreasury, feeReserve |-> call.feeReserve,
               ret |-> getDistributionStats(holders, call.ret),
               distributionAfter |-> ArgumentAfterStats(call.ret) ]
  /\ UNCHANGED <<config, holders, display, pc>>

FormulaNext == CallWeightage \/ CallDistribution \/ CallStats

FormulaSpec == FormulaInit /\ [][FormulaNext]_vars

(***************************************************************************)
(* Spec: the interactive demo (demo.js).  One action per menu operation,   *)
(* each the whole handler; what the user types is drawn from small sets    *)
(* that askNumber's range checks admit.                                    *)
(***************************************************************************)
\* wallet addresses the user types; "a" and "A" differ in case only
DemoAddresses == {"a", "A", "b"}

\* String.prototype.toLowerCase on the addresses above
ToLowerCase(str) == IF str = "A" THEN "a" ELSE str

\* answers to the prompts of configureSettings and addHolder
MinBalanceInputs == {1, 20000}
MaxBalanceInputs == {50, 100000000}
TreasuryInputs == {TreasuryScale \div 1000}
FeePercentInputs == {50}
HoursInputs == {24}
TokenInputs == {100, 20000}
HoursAfterInputs == {0, 24}

\* a value the operation did not compute
NotComputed == [k |-> "not computed"]

Init ==
  /\ config = DefaultConfig
  /\ holders = <<>>
  /\ display = NoDisplay
  /\ pc = "menu"
  /\ call = NoCall

\* case '1': configureSettings
ConfigureSettings ==
  /\ pc = "menu"
  /\ \E change \in BOOLEAN :
       IF change
       THEN \E minBalance \in MinBalanceInputs, maxBalance \in MaxBalanceInputs,
               treasury \in TreasuryInputs, feePercent \in FeePercentInputs,
               hours \in HoursInputs :
              /\ minBalance >= 1
              /\ maxBalance >= minBalance
              /\ treasury * 1000 >= TreasuryScale
              /\ feePercent >= 0 /\ feePercent <= 50
              /\ hours >= 1
              /\ config' = [ minBalance |-> minBalance, maxBalance |-> maxBalance,
                             treasuryBalance |-> treasury,
                             feeReserve |-> (feePercent * FeeScale) \div 100,
                             hoursSinceLaunch |-> hours ]
              /\ display' = [op |-> "configureSettings", changed |-> TRUE]
       ELSE /\ config' = config
            /\ display' = [op |-> "configureSettings", changed |-> FALSE]
  /\ UNCHANGED <<holders, pc, call>>

\* mutant: the addresses are compared as typed
FindExisting_CaseSensitive(hs, address) ==
  {i \in 1..Len(hs) : hs[i].address = address}

\* holders.find(h => h.address.toLowerCase() === address.toLowerCase())
FindExisting(hs, address) ==
  {i \in 1..Len(hs) : ToLowerCase(hs[i].address) = ToLowerCase(address)}

\* case '2': addHolder
AddHolder ==
  /\ pc = "menu"
  /\ \E address \in DemoAddresses :
       IF FindExisting(holders, address) # {}
       THEN /\ display' = [op |-> "addHolder", address |-> address, added |-> FALSE,
                           weightage |-> NotComputed]
            /\ UNCHANGED holders
       ELSE \E tokens \in TokenInputs, hoursAfterLaunch \in HoursAfterInputs :
              /\ tokens >= 1
              /\ hoursAfterLaunch >= 0 /\ hoursAfterLaunch <= config.hoursSinceLaunch
              /\ holders' = Append(holders,
                              Holder(address, tokens, hoursAfterLaunch, config.minBalance,
                                     config.maxBalance, config.hoursSinceLaunch))
              /\ display' = [op |-> "addHolder", address |-> address, added |-> TRUE,
                             weightage |-> calculateWeightage(tokens, hoursAfterLaunch,
                                             config.hoursSinceLaunch, config.minBalance)]
  /\ UNCHANGED <<config, pc, call>>

\* the status column of viewHolders, from the current config
HolderStatus(h) ==
  IF ~calculateWeightage(h.tokens, h.hoursAfterLaunch, h.hoursSinceLaunch,
                         config.minBalance).qualified
  THEN "Below min"
  ELSE IF h.tokens > config.maxBalance THEN "Above max" ELSE "Qualified"

\* case '3': viewHolders
ViewHolders ==
  /\ pc = "menu"
  /\ display' = [op |-> "viewHolders",
                 rows |-> [i \in 1..Len(holders) |-> HolderStatus(holders[i])]]
  /\ UNCHANGED <<config, holders, pc, call>>

\* the filter behind "Qualified holders", from the current config
QualifiedNow(h) ==
  /\ calculateWeightage(h.tokens, h.hoursAfterLaunch, h.hoursSinceLaunch,
                        config.minBalance).qualified
  /\ h.tokens <= config.maxBalance

\* mutant: the early return on an empty distribution is never taken
NoValidHolders_Never(distribution) == FALSE

\* if (distribution.length === 0): return before the statistics
NoValidHolders(distribution) == Len(distribution) = 0

\* case '4': runDistributionAndResults
RunDistributionAndResults ==
  /\ pc = "menu"
  /\ IF Len(holders) = 0
     THEN display' = [op |-> "runDistributionAndResults", result |-> "no holders",
                      totalHolders |-> NotComputed, qualifiedHolders |-> NotComputed,
                      distribution |-> NotComputed, stats |-> NotComputed]
     ELSE LET totalHolders == Len(holders)
              qualifiedHolders == Len(SelectSeq(holders, QualifiedNow))
              distribution ==
                calculateDistribution(holders, config.treasuryBalance, config.feeReserve)
          IN IF NoValidHolders(distribution)
             THEN display' = [op |-> "runDistributionAndResults",
                              result |-> "no valid holders",
                              totalHolders |-> totalHolders,
                              qualifiedHolders |-> qualifiedHolders,
                              distribution |-> distribution, stats |-> NotComputed]
             ELSE display' = [op |-> "runDistributionAndResults", result |-> "results",
                              totalHolders |-> totalHolders,
                              qualifiedHolders |-> qualifiedHolders,
                              distribution |-> distribution,
                              stats |-> getDistributionStats(holders, distribution)]
  /\ UNCHANGED <<config, holders, pc, call>>

\* case '5': clearData
ClearData ==
  /\ pc = "menu"
  /\ \E confirm \in BOOLEAN :
       /\ holders' = IF confirm THEN <<>> ELSE holders
       /\ display' = [op |-> "clearData", cleared |-> confirm]
  /\ UNCHANGED <<config, pc, call>>

\* case '6', and Ctrl+C
Exit ==
  /\ pc = "menu"
  /\ pc' = "exited"
  /\ display' = [op |-> "exit"]
  /\ UNCHANGED <<config, holders, call>>

\* default: any other choice
InvalidChoice ==
  /\ pc = "menu"
  /\ display' = [op |-> "invalid choice"]
  /\ UNCHANGED <<config, holders, pc, call>>

Next ==
  \/ ConfigureSettings
  \/ AddHolder
  \/ ViewHolders
  \/ RunDistributionAndResults
  \/ ClearData
  \/ Exit
  \/ InvalidChoice

Spec == Init /\ [][Next]_vars

(***************************************************************************)
(* Helpers of the claims                                                   *)
(***************************************************************************)
IsWeightageCall == call.fn = "calculateWeightage"
IsDistributionCall == call.fn = "calculateDistribution"
IsStatsCall == call.fn = "getDistributionStats"

\* positions of the holders that meet their own minimum / are eligible
QualifiedIdx(hs) == {i \in 1..Len(hs) : hs[i].tokens >= hs[i].minBalance}
EligibleIdx(hs) ==
  {i \in QualifiedIdx(hs) : hs[i].tokens <= hs[i].maxBalance}

\* positions of the allocations returned for the holder at position i
AllocationsOf(hs, ds, i) == {j \in 1..Len(ds) : ds[j].address = hs[i].address}

\* C1: calculateWeightage returns qualified = true exactly when
\* tokens >= minBalance, and below the minimum every weight field and
\* hoursHeld are 0.
C1_QualifiedIffMinBalance ==
  IsWeightageCall =>
    /\ call.ret.qualified <=> (call.tokens >= call.minBalance)
    /\ call.tokens < call.minBalance =>
         /\ call.ret.balanceWeight = Fin(0)
         /\ call.ret.earlyBonus = Fin(0)
         /\ call.ret.tenureBonus = Fin(0)
         /\ call.ret.timeWeight = Fin(0)
         /\ call.ret.totalWeight = Fin(0)
         /\ call.ret.hoursHeld = 0

C1_Witness ==
  /\ IsWeightageCall
  /\ call.tokens < call.minBalance
  /\ ~call.ret.qualified

\* C2: calculateDistribution returns an allocation only for a holder with
\* tokens >= its minBalance, tokens <= its maxBalance and an amount
\* >= 0.000001; a holder failing one of these has no allocation.
C2_AllocationOnlyIfEligible ==
  IsDistributionCall =>
    /\ \A j \in 1..Len(call.ret) :
         /\ \E i \in EligibleIdx(call.holders) : j \in AllocationsOf(call.holders, call.ret, i)
         /\ XGe(call.ret[j].amount, Fin(DustThreshold))
    /\ \A i \in 1..Len(call.holders) :
         i \notin EligibleIdx(call.holders) => AllocationsOf(call.holders, call.ret, i) = {}

C2_Witness ==
  /\ IsDistributionCall
  /\ Len(call.ret) = 1
  /\ \E i \in 1..Len(call.holders) : call.holders[i].tokens > call.holders[i].maxBalance

\* the sum of two quotients
QAdd(p, q) ==
  IF p.k = "nan" \/ q.k = "nan" THEN Quot("nan", 0, 1)
  ELSE IF p.k = "fin" /\ q.k = "fin"
       THEN IF p.d = q.d THEN Quot("fin", p.n + q.n, p.d)
            ELSE Quot("fin", p.n * q.d + q.n * p.d, p.d * q.d)
  ELSE IF p.k = "fin" THEN q
  ELSE IF q.k = "fin" THEN p
  ELSE IF p.k = q.k THEN p ELSE Quot("nan", 0, 1)

\* the sum of share over a list of allocations
RECURSIVE ShareSum(_)
ShareSum(ds) ==
  IF ds = <<>> THEN Quot("fin", 0, 1)
  ELSE QAdd(ShareSum(SubSeq(ds, 1, Len(ds) - 1)), ds[Len(ds)].share)

\* the inputs meet what the functions' documentation asks of their callers:
\* a positive minimum and a first purchase that is not after "now"
WellFormedHolder(h) ==
  /\ h.minBalance > 0
  /\ h.tokens >= 0
  /\ h.hoursAfterLaunch >= 0
  /\ h.hoursAfterLaunch <= h.hoursSinceLaunch

WellFormedHolders(hs) == \A i \in 1..Len(hs) : WellFormedHolder(hs[i])

\* C3: for a non-empty eligible holder set the shares of the returned
\* allocations sum to at most 1, and to exactly 1 when the dust filter
\* removed none of the eligible holders' allocations.
C3_ShareSumAtMostOne ==
  (IsDistributionCall /\ EligibleIdx(call.holders) # {}) =>
    LET sum == ShareSum(call.ret)
    IN /\ sum.k = "fin"
       /\ sum.n <= sum.d
       /\ Len(call.ret) = Cardinality(EligibleIdx(call.holders)) => sum.n = sum.d

\* the statement of C3 restricted to well-formed holder arrays
C3_ShareSumWellFormed ==
  WellFormedHolders(holders) => C3_ShareSumAtMostOne

\* C4: calculateDistribution returns the empty list, as a normal return
\* value, when the holder list is empty or every holder is below its
\* minBalance or above its maxBalance, whatever the treasury and fee reserve.
C4_EmptyWhenNoneEligible ==
  (IsDistributionCall /\ EligibleIdx(call.holders) = {}) =>
    /\ call.ret = <<>>
    /\ call.outcome = "returned"

C4_Witness ==
  /\ IsDistributionCall
  /\ call.ret = <<>>
  /\ EligibleIdx(call.holders) = {}
  /\ \E i \in 1..Len(call.holders) : call.holders[i].tokens < call.holders[i].minBalance
  /\ \E i \in 1..Len(call.holders) : call.holders[i].tokens > call.holders[i].maxBalance

\* the sum of totalWeight over the eligible holders among the first n
RECURSIVE EligibleWeight(_, _)
EligibleWeight(hs, n) ==
  IF n = 0 THEN Fin(0)
  ELSE XAdd(EligibleWeight(hs, n - 1),
            IF n \in EligibleIdx(hs)
            THEN calculateWeightage(hs[n].tokens, hs[n].hoursAfterLaunch,
                                    hs[n].hoursSinceLaunch, hs[n].minBalance).totalWeight
            ELSE Fin(0))

\* q is the quotient w / total
IsShareOf(q, w, total) ==
  IF IsFin(w) /\ IsFin(total) /\ total.v # 0
  THEN q.k = "fin" /\ q.n * total.v = w.v * q.d
  ELSE q = XDiv(w, total)

\* C5: the pool that is split is totalTreasury x (1 - feeReserve); every
\* returned allocation has share = its totalWeight / the sum of totalWeight
\* over the eligible holders, and amount = pool x share.
C5_AmountIsPoolTimesShare ==
  IsDistributionCall =>
    LET pool == call.totalTreasury * (FeeScale - call.feeReserve)
        total == EligibleWeight(call.holders, Len(call.holders))
    IN \A j \in 1..Len(call.ret) :
         /\ IsShareOf(call.ret[j].share, call.ret[j].weightage.totalWeight, total)
         /\ call.ret[j].amount = QMulInt(pool, call.ret[j].share)

\* treasury 10 with fee reserve 0.05: two equal-weight holders get share 0.5
\* and amount 4.75 each
C5_Witness ==
  /\ IsDistributionCall
  /\ call.totalTreasury = 10 * TreasuryScale
  /\ call.feeReserve * 20 = FeeScale
  /\ Len(call.ret) = 2
  /\ \A j \in 1..2 :
       /\ call.ret[j].share.k = "fin"
       /\ call.ret[j].share.n * 2 = call.ret[j].share.d
       /\ call.ret[j].amount = Fin((475 * AmountScale) \div 100)

\* a configuration error in the arguments of the call
ConfigErrorInCall ==
  \/ IsWeightageCall /\ call.minBalance <= 0
  \/ /\ IsDistributionCall
     /\ \/ \E i \in 1..Len(call.holders) :
             \/ call.holders[i].minBalance <= 0
             \/ call.holders[i].maxBalance < call.holders[i].minBalance
        \/ call.totalTreasury < 0
        \/ call.feeReserve < 0
        \/ call.feeReserve >= FeeScale

\* C6: a configuration error (minBalance <= 0, maxBalance < minBalance, a
\* negative treasury, a fee reserve outside [0,1)) is rejected: the call
\* does not return a WeightResult or an allocation list.
C6_ConfigErrorRejected ==
  ConfigErrorInCall => call.outcome # "returned"

\* C8: the returned list is a subsequence of the holder list: the
\* allocations follow the order of their holders, one holder giving at most
\* one allocation.
C8_ReturnedInInputOrder ==
  IsDistributionCall =>
    \E f \in [1..Len(call.ret) -> 1..Len(call.holders)] :
      /\ \A j1, j2 \in 1..Len(call.ret) : j1 < j2 => f[j1] < f[j2]
      /\ \A j \in 1..Len(call.ret) :
           /\ call.ret[j].address = call.holders[f[j]].address
           /\ call.ret[j].tokens = call.holders[f[j]].tokens

\* two allocations, the smaller amount first
C8_Witness ==
  /\ IsDistributionCall
  /\ Len(call.ret) = 2
  /\ call.ret[1].address = call.holders[1].address
  /\ XLt(call.ret[1].amount, call.ret[2].amount)

\* the sum of tokens over the holders at the positions idx
RECURSIVE TokensAt(_, _)
TokensAt(hs, idx) ==
  IF idx = {} THEN 0
  ELSE LET i == CHOOSE x \in idx : TRUE
       IN hs[i].tokens + TokensAt(hs, idx \ {i})

\* C9: getDistributionStats reports totalHolders = the number of holders,
\* and validHolders / totalTokens = the count and the token sum of the
\* holders with tokens >= their minBalance, whatever their maxBalance and
\* whatever the dust filter removed.
C9_StatsCountMinBalanceOnly ==
  IsStatsCall =>
    /\ call.ret.totalHolders = Len(call.holders)
    /\ call.ret.validHolders = Cardinality(QualifiedIdx(call.holders))
    /\ call.ret.totalTokens = TokensAt(call.holders, QualifiedIdx(call.holders))

\* a holder above its maxBalance is counted in validHolders and has no
\* allocation
C9_Witness ==
  /\ IsStatsCall
  /\ call.ret.validHolders > Len(call.distribution)
  /\ Len(call.distribution) > 0
  /\ \E i \in QualifiedIdx(call.holders) :
       /\ call.holders[i].tokens > call.holders[i].maxBalance
       /\ AllocationsOf(call.holders, call.distribution, i) = {}

\* no two holders share a wallet address, compared case-insensitively
NoDuplicateAddress ==
  \A i, j \in 1..Len(holders) :
    i # j => ToLowerCase(holders[i].address) # ToLowerCase(holders[j].address)

\* the step is an add-holder attempt with an address that is already there
DuplicateAttempt ==
  /\ display'.op = "addHolder"
  /\ \E i \in 1..Len(holders) :
       ToLowerCase(holders[i].address) = ToLowerCase(display'.address)

\* C10: after any sequence of menu operations no two holders have the same
\* wallet address compared case-insensitively, and an add-holder attempt
\* whose address already exists leaves the holder list unchanged.
C10_NoDuplicateAddresses ==
  /\ []NoDuplicateAddress
  /\ [][DuplicateAttempt => holders' = holders]_vars

\* "A" was typed while "a" is a holder (or the reverse), and was refused
C10_Witness ==
  /\ display.op = "addHolder"
  /\ ~display.added
  /\ Len(holders) = 2
  /\ \E i \in 1..Len(holders) :
       /\ holders[i].address # display.address
       /\ ToLowerCase(holders[i].address) = ToLowerCase(display.address)


\* the weightage calculateDistribution computes for the holder at position i
WeightageAt(hs, i) ==
  calculateWeightage(hs[i].tokens, hs[i].hoursAfterLaunch,
                     hs[i].hoursSinceLaunch, hs[i].minBalance)

\* the quotient q is a finite number of [0,1]
InUnitInterval(q) == q.k = "fin" /\ 0 <= q.n /\ q.n <= q.d

\* C11: in calculateDistribution every eligible holder has balanceWeight
\* >= 1, earlyBonus > 1, tenureBonus >= 1 and so totalWeight > 0; the
\* divisor totalWeightage is > 0 whenever a holder is eligible, and every
\* share, of an eligible holder and of a returned allocation, lies in [0,1].
C11_EligibleWeightPositive ==
  IsDistributionCall =>
    LET hs == call.holders
        total == EligibleWeight(hs, Len(hs))
    IN /\ \A i \in EligibleIdx(hs) :
            LET w == WeightageAt(hs, i)
            IN /\ XGe(w.balanceWeight, Fin(WScale))
               /\ XLt(Fin(WScale), w.earlyBonus)
               /\ XGe(w.tenureBonus, Fin(WScale))
               /\ XLt(Fin(0), w.totalWeight)
               /\ InUnitInterval(XDiv(w.totalWeight, total))
       /\ EligibleIdx(hs) # {} => XLt(Fin(0), total)
       /\ \A j \in 1..Len(call.ret) : InUnitInterval(call.ret[j].share)

\* the statement of C11 restricted to well-formed holder arrays
C11_WellFormedWeightPositive ==
  WellFormedHolders(holders) => C11_EligibleWeightPositive


\* positions of ds whose weight / amount no other allocation exceeds, and
\* whose weight / amount exceeds no other allocation's
MaxWeightIdx(ds) ==
  {j \in 1..Len(ds) :
     \A k \in 1..Len(ds) : XGe(ds[j].weightage.totalWeight, ds[k].weightage.totalWeight)}
MaxAmountIdx(ds) ==
  {j \in 1..Len(ds) : \A k \in 1..Len(ds) : XGe(ds[j].amount, ds[k].amount)}
MinWeightIdx(ds) ==
  {j \in 1..Len(ds) :
     \A k \in 1..Len(ds) : XGe(ds[k].weightage.totalWeight, ds[j].weightage.totalWeight)}
MinAmountIdx(ds) ==
  {j \in 1..Len(ds) : \A k \in 1..Len(ds) : XGe(ds[k].amount, ds[j].amount)}

\* the smallest position of a non-empty set of positions
FirstIdx(idx) == CHOOSE j \in idx : \A k \in idx : j <= k

\* C12: for a non-empty allocation list getDistributionStats returns as
\* topWeight / topReward the first allocation, in input order, among those
\* of greatest totalWeight / amount, as bottomWeight / bottomReward an
\* allocation of smallest totalWeight / amount, and leaves the list it was
\* given in its original order.
C12_TopFirstOfMaxBottomMin ==
  (IsStatsCall /\ Len(call.distribution) > 0) =>
    LET ds == call.distribution
    IN /\ MaxWeightIdx(ds) # {} /\ call.ret.topWeight = ds[FirstIdx(MaxWeightIdx(ds))]
       /\ MaxAmountIdx(ds) # {} /\ call.ret.topReward = ds[FirstIdx(MaxAmountIdx(ds))]
       /\ \E j \in MinWeightIdx(ds) : call.ret.bottomWeight = ds[j]
       /\ \E j \in MinAmountIdx(ds) : call.ret.bottomReward = ds[j]
       /\ call.distributionAfter = ds

\* two allocations of equal weight and amount: the first is the top one
C12_Witness ==
  /\ IsStatsCall
  /\ Len(call.distribution) = 2
  /\ call.distribution[1].weightage.totalWeight = call.distribution[2].weightage.totalWeight
  /\ call.distribution[1].amount = call.distribution[2].amount
  /\ call.distribution[1] # call.distribution[2]
  /\ call.ret.topWeight = call.distribution[1]
  /\ call.ret.topReward = call.distribution[1]


\* the last operation was runDistributionAndResults
RanDistribution == display.op = "runDistributionAndResults"

\* C13: in the demo getDistributionStats is never called with an empty
\* allocation list: runDistributionAndResults computes the statistics only
\* for a non-empty distribution, returning to the menu before them when
\* there are no holders or no allocation, so averageWeight and averageReward
\* are quotients by a positive count, never 0 / 0.
C13_StatsOnlyForNonEmpty ==
  RanDistribution =>
    /\ display.result \in {"no holders", "no valid holders"} =>
         display.stats = NotComputed
    /\ display.result = "no valid holders" => display.distribution = <<>>
    /\ display.stats # NotComputed =>
         /\ display.result = "results"
         /\ Len(display.distribution) > 0
         /\ display.stats.averageWeight.k = "fin"
         /\ display.stats.averageWeight.d = Len(display.distribution)
         /\ display.stats.averageReward.k = "fin"
         /\ display.stats.averageReward.d = Len(display.distribution)
    /\ pc = "menu"

\* holders are present, none is allocated, and no statistics were computed
C13_Witness ==
  /\ RanDistribution
  /\ Len(holders) > 0
  /\ display.result = "no valid holders"
  /\ display.distribution = <<>>
  /\ display.stats = NotComputed


\* every holder carries the thresholds of the current configuration
ThresholdsCurrent ==
  \A i \in 1..Len(holders) :
    /\ holders[i].minBalance = config.minBalance
    /\ holders[i].maxBalance = config.maxBalance

\* C14: in the demo the "Qualified holders" count printed by
\* runDistributionAndResults equals the number of holders that pass the
\* eligibility filter of calculateDistribution.
C14_PrintedCountIsEligibleCount ==
  (RanDistribution /\ display.result # "no holders") =>
    display.qualifiedHolders = Cardinality(EligibleIdx(holders))

\* the statement of C14 while no threshold was changed since the holders
\* were added
C14_CountWithCurrentThresholds ==
  ThresholdsCurrent => C14_PrintedCountIsEligibleCount

====
